---------------------------- MODULE Spec2Model ----------------------------
(***************************************************************************)
(* Project Scope Catalyst: the proposal service (generateProposal), the    *)
(* POST /generate route that races it against a deadline, the data they    *)
(* exchange, the fallback generator on its own (FallbackSpec) and the      *)
(* POST /generate-pdf route (PdfSpec).                                     *)
(*                                                                         *)
(* Strings are sequences of runs [c, n]: a run whose c is one character    *)
(* stands for that character repeated n times; a run whose c is a longer   *)
(* literal stands for that literal, with n its length.  The user's idea    *)
(* is blanks, then non-blank characters, then blanks.                      *)
(*                                                                         *)
(* JavaScript values are records [t, s, a]: t the typeof/Array.isArray     *)
(* class, s the characters of a string, a the elements of an array.        *)
(***************************************************************************)
EXTENDS Integers, Sequences, FiniteSets, TLC

----------------------------------------------------------------------------
(* Program constants *)

MaxIdeaLength == 4000

TitlePrefixLength == 50

TIMEOUT_MS == 15000

(* As ABORT_MS, but shorter than the deadline of the route *)
AbortBeforeDeadline == TIMEOUT_MS - 5000

ABORT_MS == 30000

PlaceholderKey == "your_google_ai_api_key_here"

(* As models, in another order *)
modelsFlashFirst == << "gemini-1.5-flash-latest", "gemini-pro", "gemini-1.0-pro" >>

(* As models, with one candidate listed twice *)
modelsRepeated == << "gemini-pro", "gemini-pro", "gemini-1.0-pro" >>

models == << "gemini-pro", "gemini-1.0-pro", "gemini-1.5-flash-latest" >>

(* Bounds of the model *)

TickMs == 15000

MaxTime == 45000

MaxPad == 1

MaxOver == 2

MaxTitleLen == 2

----------------------------------------------------------------------------
(* Strings *)

Lit(s) == IF s = "" THEN << >> ELSE << [c |-> s, n |-> Len(s)] >>

Rep(ch, k) == IF k = 0 THEN << >> ELSE << [c |-> ch, n |-> k] >>

RECURSIVE StrLen(_)
StrLen(s) == IF s = << >> THEN 0 ELSE Head(s).n + StrLen(Tail(s))

IsBlankRun(r) == r.c = " "

RECURSIVE TrimStart(_)
TrimStart(s) ==
    IF s = << >> THEN << >>
    ELSE IF IsBlankRun(Head(s)) THEN TrimStart(Tail(s))
    ELSE s

RECURSIVE TrimEnd(_)
TrimEnd(s) ==
    IF s = << >> THEN << >>
    ELSE IF IsBlankRun(s[Len(s)]) THEN TrimEnd(SubSeq(s, 1, Len(s) - 1))
    ELSE s

Trim(s) == TrimEnd(TrimStart(s))

(* As Substring0, without the truncation *)
Substring0Whole(s, k) == s

(* String.prototype.substring(0, k) on a string of one-character runs *)
RECURSIVE Substring0(_, _)
Substring0(s, k) ==
    IF s = << >> \/ k <= 0 THEN << >>
    ELSE IF Head(s).n <= k THEN << Head(s) >> \o Substring0(Tail(s), k - Head(s).n)
    ELSE << [c |-> Head(s).c, n |-> k] >>

----------------------------------------------------------------------------
(* JavaScript values *)

JStr(s) == [t |-> "string", s |-> s, a |-> << >>]

JArr(a) == [t |-> "array", s |-> << >>, a |-> a]

JUndefined == [t |-> "undefined", s |-> << >>, a |-> << >>]

JNumber == [t |-> "number", s |-> << >>, a |-> << >>]

(* !v for the values above (the number stands for a non-zero one) *)
Falsy(v) == v.t = "undefined" \/ (v.t = "string" /\ StrLen(v.s) = 0)

IdeaString(lead, core, trail) == JStr(Rep(" ", lead) \o Rep("x", core) \o Rep(" ", trail))

(* The ideas of the requests: around the title prefix and the ceiling, and *)
(* blank-padded ones that are blank only or over the ceiling untrimmed     *)
CoreLengths == { 0, 1, TitlePrefixLength + 1, MaxIdeaLength, MaxIdeaLength + 1 }

IdeaStrings ==
    { IdeaString(0, k, 0) : k \in CoreLengths }
        \cup { IdeaString(l, k, 0) : l \in 1..MaxPad, k \in { 0, MaxIdeaLength, MaxIdeaLength + 1 } }

IdeaValues == IdeaStrings \cup { JUndefined, JNumber }

----------------------------------------------------------------------------
(* Proposals *)

StrList(ss) == JArr([i \in 1..Len(ss) |-> JStr(Lit(ss[i]))])

(* getEnhancedFallback: the two templates built for userIdea (a string) *)
fallbacks(userIdea) ==
    LET truncatedIdea == Substring0(userIdea.s, TitlePrefixLength)
        ellipsis == IF StrLen(userIdea.s) > TitlePrefixLength THEN Lit("...") ELSE << >>
    IN << [ title |-> JStr(Lit("Strategic Initiative: ") \o truncatedIdea \o ellipsis),
            objective |-> JStr(Lit("This comprehensive project addresses: \"") \o userIdea.s
                \o Lit("\". We will deliver an innovative solution combining modern technology with user-centered design to achieve exceptional business outcomes and operational excellence.")),
            features |-> StrList(<<
                "Core functionality implementation with comprehensive error handling",
                "Responsive multi-platform user interface design",
                "Scalable cloud-native architecture foundation",
                "Enterprise-grade security and data protection framework",
                "Real-time analytics and performance monitoring capabilities",
                "Seamless third-party API integrations",
                "Automated testing and continuous deployment pipeline",
                "Comprehensive documentation and support materials" >>),
            targetAudience |-> JStr(Lit("Primary stakeholders including business users, technical teams, administrators, and end-customers requiring efficient, reliable, and scalable solutions.")),
            considerations |-> StrList(<<
                "Technology stack evaluation and proof-of-concept development",
                "Agile project management with sprint planning and milestone tracking",
                "Resource allocation and cross-functional team coordination",
                "Budget planning with risk-adjusted contingency reserves",
                "Security compliance and regulatory requirements analysis",
                "Performance benchmarking and scalability testing strategy",
                "User acceptance testing and feedback incorporation process",
                "Post-launch support and maintenance planning" >>) ],
          [ title |-> JStr(Lit("Project Catalyst: ") \o truncatedIdea \o ellipsis),
            objective |-> JStr(Lit("Our project focuses on transforming \"") \o userIdea.s
                \o Lit("\" into a market-ready solution. This initiative will leverage cutting-edge technology to deliver measurable business outcomes and sustainable competitive advantage.")),
            features |-> StrList(<<
                "Advanced feature set with modular, maintainable architecture",
                "Cross-platform compatibility and accessibility compliance",
                "Real-time data processing and analytics dashboard",
                "Automated workflow optimization and process streamlining",
                "Robust integration capabilities with existing enterprise systems",
                "Comprehensive monitoring, logging, and alerting systems",
                "User training materials and knowledge base development",
                "Disaster recovery and business continuity planning" >>),
            targetAudience |-> JStr(Lit("Business stakeholders, technical implementation teams, end-users across multiple departments, and system administrators requiring comprehensive solutions.")),
            considerations |-> StrList(<<
                "Detailed technology stack evaluation and selection criteria",
                "Development methodology and project governance framework",
                "Quality assurance strategy and testing automation approach",
                "Phased deployment and rollout planning across environments",
                "Training, documentation, and change management requirements",
                "Performance optimization and capacity planning analysis",
                "Security audit and penetration testing requirements",
                "Long-term maintenance and evolution roadmap" >>) ] >>

(* userIdea.substring(...) throws a TypeError unless userIdea is a string *)
FallbackThrows(userIdea) == userIdea.t # "string"

(* Math.floor(Math.random() * fallbacks.length) + 1, drawn by the caller *)
TemplateIndexes == 1..2

getEnhancedFallback(userIdea, r) == fallbacks(userIdea)[r]

NoProposal ==
    [ title |-> JUndefined, objective |-> JUndefined, features |-> JUndefined,
      targetAudience |-> JUndefined, considerations |-> JUndefined ]

NonEmptyString(v) == v.t = "string" /\ StrLen(v.s) > 0

NonEmptyStringArray(v) ==
    /\ v.t = "array"
    /\ Len(v.a) > 0
    /\ \A i \in 1..Len(v.a) : NonEmptyString(v.a[i])

(* As validateProposal, without the checks of the array elements *)
validateProposalShallow(proposal) ==
    /\ NonEmptyString(proposal.title)
    /\ NonEmptyString(proposal.objective)
    /\ proposal.features.t = "array" /\ Len(proposal.features.a) > 0
    /\ NonEmptyString(proposal.targetAudience)
    /\ proposal.considerations.t = "array" /\ Len(proposal.considerations.a) > 0

validateProposal(proposal) ==
    LET hasTitle == NonEmptyString(proposal.title)
        hasObjective == NonEmptyString(proposal.objective)
        hasFeatures == NonEmptyStringArray(proposal.features)
        hasAudience == NonEmptyString(proposal.targetAudience)
        hasConsiderations == NonEmptyStringArray(proposal.considerations)
    IN hasTitle /\ hasObjective /\ hasFeatures /\ hasAudience /\ hasConsiderations

----------------------------------------------------------------------------
(* The text of a model answer: a sequence of tokens.  "fence_json" and     *)
(* "fence" are the code fences with and without the json tag, " " is a     *)
(* run of whitespace, "prose" is text without braces, "{" and "}" are      *)
(* braces, and any other token is the members of                           *)
(* one JSON object, named in ObjectMembers.                                *)

ValidMembers ==
    [ title |-> JStr(Lit("Inventory Tracker")),
      objective |-> JStr(Lit("Track stock levels across warehouses.")),
      features |-> StrList(<< "Barcode scanning", "Low-stock alerts" >>),
      targetAudience |-> JStr(Lit("Warehouse managers")),
      considerations |-> StrList(<< "Offline operation" >>) ]

ObjectMembers ==
    [ valid |-> ValidMembers,
      noTitle |-> [ValidMembers EXCEPT !.title = JUndefined],
      emptyObjective |-> [ValidMembers EXCEPT !.objective = JStr(<< >>)],
      emptyFeatures |-> [ValidMembers EXCEPT !.features = JArr(<< >>)],
      blankFeature |-> [ValidMembers EXCEPT !.features = JArr(<< JStr(Lit("Barcode scanning")), JStr(<< >>) >>)],
      numberAudience |-> [ValidMembers EXCEPT !.targetAudience = JNumber],
      stringConsiderations |-> [ValidMembers EXCEPT !.considerations = JStr(Lit("Offline operation"))],
      numberConsideration |-> [ValidMembers EXCEPT !.considerations = JArr(<< JNumber >>)] ]

MemberTokens == DOMAIN ObjectMembers

IsWs(tok) == tok = " "

RECURSIVE DropLeadingWs(_)
DropLeadingWs(ts) ==
    IF ts # << >> /\ IsWs(Head(ts)) THEN DropLeadingWs(Tail(ts)) ELSE ts

RECURSIVE DropTrailingWs(_)
DropTrailingWs(ts) ==
    IF ts # << >> /\ IsWs(ts[Len(ts)]) THEN DropTrailingWs(SubSeq(ts, 1, Len(ts) - 1)) ELSE ts

(* text.replace: every json fence and the whitespace after it is removed *)
RECURSIVE StripJsonFences(_)
StripJsonFences(ts) ==
    IF ts = << >> THEN << >>
    ELSE IF Head(ts) = "fence_json" THEN StripJsonFences(DropLeadingWs(Tail(ts)))
    ELSE << Head(ts) >> \o StripJsonFences(Tail(ts))

(* text.replace: every fence and the whitespace before it is removed *)
RECURSIVE StripFences(_)
StripFences(ts) ==
    IF ts = << >> THEN << >>
    ELSE IF ts[Len(ts)] = "fence"
         THEN StripFences(DropTrailingWs(SubSeq(ts, 1, Len(ts) - 1)))
    ELSE StripFences(SubSeq(ts, 1, Len(ts) - 1)) \o << ts[Len(ts)] >>

Positions(ts, tok) == { i \in 1..Len(ts) : ts[i] = tok }

Min(S) == CHOOSE x \in S : \A y \in S : x <= y

Max(S) == CHOOSE x \in S : \A y \in S : x >= y

(* cleaned.match: greedy, from the first opening brace to the last closing brace *)
HasJsonMatch(ts) ==
    /\ Positions(ts, "{") # {}
    /\ \E j \in Positions(ts, "}") : j > Min(Positions(ts, "{"))

JsonMatch(ts) == SubSeq(ts, Min(Positions(ts, "{")), Max(Positions(ts, "}")))

RECURSIVE WithoutWs(_)
WithoutWs(ts) ==
    IF ts = << >> THEN << >>
    ELSE IF IsWs(Head(ts)) THEN WithoutWs(Tail(ts))
    ELSE << Head(ts) >> \o WithoutWs(Tail(ts))

(* JSON.parse of a matched substring: it parses when it is one object *)
JsonParses(ts) ==
    \/ WithoutWs(ts) = << "{", "}" >>
    \/ /\ Len(WithoutWs(ts)) = 3
       /\ WithoutWs(ts)[1] = "{"
       /\ WithoutWs(ts)[2] \in MemberTokens
       /\ WithoutWs(ts)[3] = "}"

JsonParse(ts) ==
    IF Len(WithoutWs(ts)) = 3 THEN ObjectMembers[WithoutWs(ts)[2]] ELSE NoProposal

SyntaxErrorMessage == "Unexpected token in JSON"

(* cleanAndParseJSON: [ok, proposal] or the ProposalServiceError thrown,    *)
(* with its message, type and retryable flag                               *)
cleanAndParseJSON(text) ==
    LET cleaned == DropTrailingWs(DropLeadingWs(StripFences(StripJsonFences(text))))
        Thrown(msg) == [ok |-> FALSE, proposal |-> NoProposal, message |-> msg,
                        type |-> "VALIDATION_ERROR", retryable |-> TRUE]
    IN IF text = << >> THEN Thrown("Empty or invalid response text")
       ELSE IF ~HasJsonMatch(cleaned) THEN Thrown("No JSON object found in response")
       ELSE IF ~JsonParses(JsonMatch(cleaned))
            THEN Thrown("JSON parsing failed: " \o SyntaxErrorMessage)
       ELSE IF validateProposal(JsonParse(JsonMatch(cleaned)))
            THEN [ok |-> TRUE, proposal |-> JsonParse(JsonMatch(cleaned)), message |-> "",
                  type |-> "", retryable |-> FALSE]
       ELSE Thrown("JSON parsing failed: " \o "Proposal validation failed - missing required fields")

----------------------------------------------------------------------------
(* What one candidate call can end in.  kind "network": fetch, or the read *)
(* of the body, rejects with an error other than an abort.  kind           *)
(* "response": status and body were received; body says what the body      *)
(* holds.  kind "aborted": the abort signal rejected the call.             *)

Outcome(kind, status, body, text) ==
    [kind |-> kind, status |-> status, body |-> body, text |-> text]

NetworkFailure == Outcome("network", 0, "none", << >>)

Aborted == Outcome("aborted", 0, "none", << >>)

(* Bodies of a success answer: "notjson" is no JSON at all, "null" the     *)
(* JSON value null, "notext" an object without                             *)
(* candidates[0].content.parts[0].text, "text" an object with it.          *)
(* Bodies of a non-success answer: "json" is an object with error.message, *)
(* "empty" the empty body, "null" the JSON value null.                     *)

FencedValid == << "fence_json", " ", "{", " ", "valid", " ", "}", " ", "fence" >>

TwoObjects == << "{", "valid", "}", " ", "prose", " ", "{", "valid", "}" >>

BlankFeature == << "{", "blankFeature", "}" >>

Texts ==
    { << "{", "valid", "}" >>, FencedValid, TwoObjects, BlankFeature,
      << "prose", " ", "{", "valid", "}", " ", "prose" >>,
      << "prose" >>,
      << "{", "}" >>,
      << "{", "noTitle", "}" >> }

(* The answers the candidate calls are given here *)
OkOutcomes ==
    { Outcome("response", 200, "notext", << >>) }
        \cup { Outcome("response", 200, "text", t) : t \in { FencedValid, TwoObjects, BlankFeature } }

ErrorOutcomes ==
    { Outcome("response", e[1], e[2], << >>) :
        e \in { << 429, "json" >>, << 429, "null" >>, << 404, "json" >>, << 404, "null" >>,
                << 401, "json" >>, << 403, "json" >>, << 403, "null" >>, << 500, "empty" >> } }

Outcomes == { NetworkFailure } \cup OkOutcomes \cup ErrorOutcomes

StatusText(status) ==
    CASE status = 429 -> "429"
      [] status = 404 -> "404"
      [] status = 401 -> "401"
      [] status = 403 -> "403"
      [] status = 500 -> "500"
      [] OTHER -> "200"

ApiErrorMessage == "The service reported an error"

(* errorData.error?.message after JSON.parse(errorText) or its catch *)
ErrorDataMessage(o) == IF o.body = "json" THEN ApiErrorMessage ELSE ""

(* errorData is null: reading errorData.error throws a TypeError *)
ErrorDataThrows(o) == o.body = "null"

NullReadMessage == "Cannot read properties of null"

FetchFailedMessage == "fetch failed"

(* As StatusPolicy, with the status codes of two branches exchanged *)
StatusPolicyExchanged(status) ==
    IF status = 404 THEN "quota"
    ELSE IF status = 429 THEN "not_found"
    ELSE IF status = 401 \/ status = 403 THEN "auth"
    ELSE "other"

(* The branch of the status chain taken for a non-success status *)
StatusPolicy(status) ==
    IF status = 429 THEN "quota"
    ELSE IF status = 404 THEN "not_found"
    ELSE IF status = 401 \/ status = 403 THEN "auth"
    ELSE "other"

Decision(next, message, proposal) ==
    [next |-> next, message |-> message, proposal |-> proposal]

(* As OnOk, but a text that parses is returned without validateProposal *)
OnOkUnvalidated(o) ==
    LET cleaned == DropTrailingWs(DropLeadingWs(StripFences(StripJsonFences(o.text))))
    IN IF o.body = "notjson" THEN Decision("continue", SyntaxErrorMessage, NoProposal)
       ELSE IF o.body = "null" THEN Decision("continue", NullReadMessage, NoProposal)
       ELSE IF o.body = "notext" \/ o.text = << >>
            THEN Decision("continue", "Empty response from AI model", NoProposal)
       ELSE IF HasJsonMatch(cleaned) /\ JsonParses(JsonMatch(cleaned))
            THEN Decision("ai", "", JsonParse(JsonMatch(cleaned)))
       ELSE Decision("continue", cleanAndParseJSON(o.text).message, NoProposal)

(* response.ok branch, with the catch of what it throws *)
OnOk(o) ==
    IF o.body = "notjson" THEN Decision("continue", SyntaxErrorMessage, NoProposal)
    ELSE IF o.body = "null" THEN Decision("continue", NullReadMessage, NoProposal)
    ELSE IF o.body = "notext" \/ o.text = << >>
         THEN Decision("continue", "Empty response from AI model", NoProposal)
    ELSE IF cleanAndParseJSON(o.text).ok
         THEN Decision("ai", "", cleanAndParseJSON(o.text).proposal)
    ELSE Decision("continue", cleanAndParseJSON(o.text).message, NoProposal)

(* the else branch of response.ok, with the catch of what it throws *)
OnError(model, o) ==
    IF ErrorDataThrows(o) THEN Decision("continue", NullReadMessage, NoProposal)
    ELSE IF StatusPolicy(o.status) = "quota" THEN Decision("quota", "", NoProposal)
    ELSE IF StatusPolicy(o.status) = "not_found"
         THEN Decision("continue", "Model " \o model \o " not found", NoProposal)
    ELSE IF StatusPolicy(o.status) = "auth" THEN Decision("auth", "", NoProposal)
    ELSE Decision("continue",
                  "HTTP " \o StatusText(o.status) \o ": "
                      \o (IF ErrorDataMessage(o) # "" THEN ErrorDataMessage(o) ELSE "Unknown error"),
                  NoProposal)

(* As HandleOutcome, but a network failure leaves the loop *)
HandleOutcomeNetworkBreaks(model, o) ==
    IF o.kind = "aborted" THEN Decision("break", "Request timeout across all models", NoProposal)
    ELSE IF o.kind = "network" THEN Decision("break", FetchFailedMessage, NoProposal)
    ELSE IF o.status = 200 THEN OnOk(o)
    ELSE OnError(model, o)

(* One iteration of the candidate loop, from the settled call on *)
HandleOutcome(model, o) ==
    IF o.kind = "aborted" THEN Decision("break", "Request timeout across all models", NoProposal)
    ELSE IF o.kind = "network" THEN Decision("continue", FetchFailedMessage, NoProposal)
    ELSE IF o.status = 200 THEN OnOk(o)
    ELSE OnError(model, o)

----------------------------------------------------------------------------
(* Results and responses *)

NoError ==
    [name |-> "", message |-> "", type |-> "", retryable |-> FALSE, userMessage |-> ""]

ApiError(name, message, type, retryable, userMessage) ==
    [name |-> name, message |-> message, type |-> type, retryable |-> retryable,
     userMessage |-> userMessage]

NoResult == [proposal |-> NoProposal, source |-> "", hasError |-> FALSE, error |-> NoError]

Plain(proposal, source) ==
    [proposal |-> proposal, source |-> source, hasError |-> FALSE, error |-> NoError]

WithError(proposal, error) ==
    [proposal |-> proposal, source |-> "fallback", hasError |-> TRUE, error |-> error]

ValidationErrorInvalid ==
    ApiError("ValidationError", "Invalid input idea", "VALIDATION_ERROR", FALSE,
             "Please provide a valid project idea")

ValidationErrorTooLong ==
    ApiError("ValidationError", "Input too long", "VALIDATION_ERROR", FALSE,
             "Project idea is too long. Please keep it under 4000 characters.")

QuotaExceededError ==
    ApiError("QuotaExceededError", "API quota exceeded for all models", "QUOTA_EXCEEDED", FALSE,
             "AI service quota has been reached for today. Using demo data. The quota resets daily.")

(* As AuthError, but marked retryable *)
AuthErrorRetryable ==
    ApiError("AuthError", "API authentication failed", "AUTH_ERROR", TRUE,
             "API authentication failed. Please check your API key configuration.")

AuthError ==
    ApiError("AuthError", "API authentication failed", "AUTH_ERROR", FALSE,
             "API authentication failed. Please check your API key configuration.")

NoLastError == [set |-> FALSE, message |-> ""]

LastError(message) == [set |-> TRUE, message |-> message]

(* As AllModelsFailed, but the recorded failure is not reported *)
AllModelsFailedUnrecorded(last) ==
    ApiError("AllModelsFailed", "All AI models failed", "MODEL_NOT_FOUND", TRUE,
             "AI services are currently unavailable. Using high-quality demo data based on your idea.")

(* lastError?.message || 'All AI models failed' *)
AllModelsFailed(last) ==
    ApiError("AllModelsFailed",
             IF last.set /\ last.message # "" THEN last.message ELSE "All AI models failed",
             "MODEL_NOT_FOUND", TRUE,
             "AI services are currently unavailable. Using high-quality demo data based on your idea.")

UnexpectedError(message) ==
    ApiError("UnexpectedError", message, "UNKNOWN_ERROR", TRUE,
             "An unexpected error occurred. Showing demo proposal based on your idea.")


NoErrorBody == [type |-> "", message |-> "", retryable |-> FALSE, technicalDetails |-> ""]

ErrorBody(type, message, retryable, technicalDetails) ==
    [type |-> type, message |-> message, retryable |-> retryable,
     technicalDetails |-> technicalDetails]

HttpResponse(status, success, hasData, data, source, hasError, error, errorText, userMessage) ==
    [status |-> status, success |-> success, hasData |-> hasData, data |-> data,
     source |-> source, hasError |-> hasError, error |-> error, errorText |-> errorText,
     userMessage |-> userMessage]

NoResponse == HttpResponse(0, FALSE, FALSE, NoProposal, "", FALSE, NoErrorBody, "", "")

IdeaRequired ==
    HttpResponse(400, FALSE, FALSE, NoProposal, "", FALSE, NoErrorBody,
                 "Valid project idea is required",
                 "Please provide a project idea to generate a proposal.")

IdeaTooLong ==
    HttpResponse(400, FALSE, FALSE, NoProposal, "", FALSE, NoErrorBody,
                 "Project idea too long",
                 "Please keep your project idea under 4000 characters.")

(* As SuccessResponse, but success is reported only without an error *)
SuccessResponseUnlessError(res) ==
    HttpResponse(200, ~res.hasError, TRUE, res.proposal, res.source, res.hasError,
                 IF res.hasError
                 THEN ErrorBody(res.error.type, res.error.userMessage, res.error.retryable,
                                res.error.message)
                 ELSE NoErrorBody,
                 "", "")

(* res.json(response) after the race was won by the orchestrator *)
SuccessResponse(res) ==
    HttpResponse(200, TRUE, TRUE, res.proposal, res.source, res.hasError,
                 IF res.hasError
                 THEN ErrorBody(res.error.type, res.error.userMessage, res.error.retryable,
                                res.error.message)
                 ELSE NoErrorBody,
                 "", "")

TimeoutResponse ==
    HttpResponse(408, FALSE, FALSE, NoProposal, "", TRUE,
                 ErrorBody("TIMEOUT_ERROR", "The request took too long to process.", TRUE,
                           "Request timeout after 15 seconds"),
                 "", "The request took too long. Please try again.")

fallbackProposal ==
    [ title |-> JStr(Lit("Project Proposal")),
      objective |-> JStr(Lit("We encountered an unexpected error while generating your proposal. Please try again with your project idea.")),
      features |-> StrList(<<
          "Error handling and recovery systems",
          "User-friendly error messaging",
          "Robust fallback mechanisms" >>),
      targetAudience |-> JStr(Lit("Users experiencing technical difficulties")),
      considerations |-> StrList(<<
          "System stability and error recovery",
          "User experience during service interruptions",
          "Communication of technical issues" >>) ]

(* As UnexpectedResponse, without the proposal and its source *)
UnexpectedResponseBare(message) ==
    HttpResponse(500, FALSE, FALSE, NoProposal, "", TRUE,
                 ErrorBody("UNEXPECTED_ERROR", "An unexpected error occurred in the server.",
                           TRUE, message),
                 "", "An unexpected error occurred. Showing a basic proposal template.")

UnexpectedResponse(message) ==
    HttpResponse(500, FALSE, TRUE, fallbackProposal, "fallback", TRUE,
                 ErrorBody("UNEXPECTED_ERROR", "An unexpected error occurred in the server.",
                           TRUE, message),
                 "", "An unexpected error occurred. Showing a basic proposal template.")

----------------------------------------------------------------------------
(* POST /generate-pdf: the request, the file name and the responses.  A    *)
(* title is a string of one-character runs.                                *)

PDF_TIMEOUT_MS == 10000

LowerCase ==
    { "a", "b", "c", "d", "e", "f", "g", "h", "i", "j", "k", "l", "m",
      "n", "o", "p", "q", "r", "s", "t", "u", "v", "w", "x", "y", "z" }

UpperCase ==
    { "A", "B", "C", "D", "E", "F", "G", "H", "I", "J", "K", "L", "M",
      "N", "O", "P", "Q", "R", "S", "T", "U", "V", "W", "X", "Y", "Z" }

Digits == { "0", "1", "2", "3", "4", "5", "6", "7", "8", "9" }

(* As InClass, without the i flag *)
InClassCaseSensitive(ch) == ch \in LowerCase \cup Digits

(* The character is in the class a-z0-9 of the pattern, letter case ignored *)
InClass(ch) == ch \in LowerCase \cup UpperCase \cup Digits

(* title.replace with the g flag: every character outside the class becomes "_" *)
Sanitize(s) ==
    [k \in 1..Len(s) |-> IF InClass(s[k].c) THEN s[k] ELSE [c |-> "_", n |-> s[k].n]]

ContentDisposition(title) ==
    Lit("attachment; filename=\"") \o Sanitize(title.s) \o Lit(".pdf\"")

Chars(cs) == JStr([k \in 1..Len(cs) |-> [c |-> cs[k], n |-> 1]])

PdfBody(present, hasProposal, title) ==
    [present |-> present, hasProposal |-> hasProposal, title |-> title]

NoPdfBody == PdfBody(FALSE, FALSE, JUndefined)

(* kind "json": res.status(status).json(...); kind "buffer": res.send(pdfBuffer) *)
PdfResponse(status, kind, success, error, contentType, disposition) ==
    [status |-> status, kind |-> kind, success |-> success, error |-> error,
     contentType |-> contentType, disposition |-> disposition]

NoPdfResponse == PdfResponse(0, "none", FALSE, "", "", << >>)

PdfJson(status, error) == PdfResponse(status, "json", FALSE, error, "application/json", << >>)

ProposalRequired == PdfJson(400, "Valid proposal data is required")

PdfTimeout == PdfJson(408, "PDF generation timeout. Please try again.")

PdfFailed == PdfJson(500, "Failed to generate PDF. Please try again.")

PdfAttachment(title) ==
    PdfResponse(200, "buffer", TRUE, "", "application/pdf", ContentDisposition(title))

----------------------------------------------------------------------------
(* State *)

VARIABLES
    apiKey,       \* process.env.GOOGLE_API_KEY ("" when it is not set)
    now,          \* milliseconds since the request started
    caller,       \* "none", "route" (POST /generate) or "direct" (generateProposal called)
    idea,         \* the idea of the request, or the argument of the direct call
    rpc,          \* the route handler: "idle", "racing" (awaiting Promise.race), "done"
    response,     \* the response sent
    sent,         \* how many responses were sent
    routeTimer,   \* the setTimeout of timeout(TIMEOUT_MS)
    gpc,          \* generateProposal: "idle", "fetching", "returned", "rejected"
    exit,         \* the statement generateProposal returned from
    idx,          \* position in models of the candidate being called
    calls,        \* the models called, in order
    outcomes,     \* what each call ended in
    lastError,    \* the loop's lastError
    result,       \* the ProposalResult returned
    abortTimer,   \* the setTimeout that aborts the controller
    reqBody,      \* req.body of POST /generate: "none", "undefined" or "object"
    fbIdea,       \* the argument of a call of getEnhancedFallback
    fbPc,         \* that call: "idle", "ready", "returned", "threw"
    fbProposal,   \* the Proposal it returned
    pdfBody,      \* req.body of POST /generate-pdf
    ppc,          \* its route handler: "idle", "racing" (awaiting Promise.race), "done"
    pdfResponse,  \* the response sent
    pdfSent,      \* how many responses were sent
    pdfTimer,     \* the setTimeout of its timeout(TIMEOUT_MS)
    pdfGen,       \* the promise of generatePDF: "none", "pending", "resolved", "rejected"
    uiIdea,       \* ProposalGenerator: the state idea (the textarea)
    uiProposal,   \* the state proposal: null or a Proposal
    loading,      \* the state loading
    usingFallback, \* the state usingFallback (the demo mode banner)
    editing,      \* the state editing
    editedProposal, \* the state editedProposal: null or a Proposal
    inflight      \* the calls of the component's generateProposal that await fetch or json

routeVars == << rpc, response, sent, routeTimer >>

gpVars == << gpc, exit, idx, calls, outcomes, lastError, result, abortTimer >>

fbVars == << fbIdea, fbPc, fbProposal >>

pdfVars == << pdfBody, ppc, pdfResponse, pdfSent, pdfTimer, pdfGen >>

uiVars == << uiIdea, uiProposal, loading, usingFallback, editing, editedProposal, inflight >>

otherVars == << fbVars, pdfVars, uiVars >>

vars == << apiKey, now, caller, idea, rpc, response, sent, routeTimer,
           gpc, exit, idx, calls, outcomes, lastError, result, abortTimer,
           reqBody, fbIdea, fbPc, fbProposal,
           pdfBody, ppc, pdfResponse, pdfSent, pdfTimer, pdfGen,
           uiIdea, uiProposal, loading, usingFallback, editing, editedProposal, inflight >>

ApiKeys == { "", PlaceholderKey, "configured-key" }

Unset == [state |-> "unset", at |-> 0]

Armed(at) == [state |-> "armed", at |-> at]

(* No request to POST /generate and no call of generateProposal yet *)
GenerateIdle ==
    /\ now = 0
    /\ caller = "none"
    /\ idea = JUndefined
    /\ reqBody = "none"
    /\ rpc = "idle"
    /\ response = NoResponse
    /\ sent = 0
    /\ routeTimer = Unset
    /\ gpc = "idle"
    /\ exit = "none"
    /\ idx = 0
    /\ calls = << >>
    /\ outcomes = << >>
    /\ lastError = NoLastError
    /\ result = NoResult
    /\ abortTimer = Unset

(* No call of getEnhancedFallback on its own *)
FallbackIdle ==
    /\ fbIdea = JUndefined
    /\ fbPc = "idle"
    /\ fbProposal = NoProposal

(* No request to POST /generate-pdf yet *)
PdfIdle ==
    /\ pdfBody = NoPdfBody
    /\ ppc = "idle"
    /\ pdfResponse = NoPdfResponse
    /\ pdfSent = 0
    /\ pdfTimer = Unset
    /\ pdfGen = "none"

(* null, and a Proposal, as the value of a state of the component *)
Null == [isNull |-> TRUE, v |-> NoProposal]

Some(p) == [isNull |-> FALSE, v |-> p]

(* The component as mounted: the initial values of its useState calls *)
UiIdle ==
    /\ uiIdea = JStr(<< >>)
    /\ uiProposal = Null
    /\ loading = FALSE
    /\ usingFallback = FALSE
    /\ editing = FALSE
    /\ editedProposal = Null
    /\ inflight = << >>

Init ==
    /\ apiKey \in ApiKeys
    /\ GenerateIdle
    /\ FallbackIdle
    /\ PdfIdle
    /\ UiIdle


----------------------------------------------------------------------------
(* generateProposal, up to its first await *)

(* As Unconfigured, without the placeholder *)
UnconfiguredUnsetOnly(key) == key = ""

Unconfigured(key) == key = "" \/ key = PlaceholderKey

(* As InvalidIdea, without the test of the trimmed length *)
InvalidIdeaUntrimmed(i) == Falsy(i) \/ i.t # "string"

InvalidIdea(i) == Falsy(i) \/ i.t # "string" \/ StrLen(Trim(i.s)) = 0

trimmedIdea(i) == JStr(Trim(i.s))

(* As TooLong, with the ceiling one character higher *)
TooLongOffByOne(i) == StrLen(trimmedIdea(i).s) > MaxIdeaLength + 1

TooLong(i) == StrLen(trimmedIdea(i).s) > MaxIdeaLength

Settled(pc, label, res) == [gpc |-> pc, exit |-> label, result |-> res]

(* The outer catch: it builds the fallback again, which throws again for   *)
(* an idea that is no string, and then the promise rejects                 *)
OuterCatch(i, r, message) ==
    IF FallbackThrows(i) THEN Settled("rejected", "thrown", NoResult)
    ELSE Settled("returned", "unexpected",
                 WithError(getEnhancedFallback(i, r), UnexpectedError(message)))

SubstringMessage == "userIdea.substring is not a function"

Start(i, key, r) ==
    IF Unconfigured(key)
    THEN IF FallbackThrows(i) THEN OuterCatch(i, r, SubstringMessage)
         ELSE Settled("returned", "unconfigured", Plain(getEnhancedFallback(i, r), "fallback"))
    ELSE IF InvalidIdea(i)
    THEN IF FallbackThrows(i) THEN OuterCatch(i, r, SubstringMessage)
         ELSE Settled("returned", "invalid_input",
                      WithError(getEnhancedFallback(i, r), ValidationErrorInvalid))
    ELSE IF TooLong(i)
    THEN Settled("returned", "too_long",
                 WithError(getEnhancedFallback(JStr(Substring0(trimmedIdea(i).s, MaxIdeaLength)), r),
                           ValidationErrorTooLong))
    ELSE Settled("fetching", "none", NoResult)

StartGenerateProposal(i, r) ==
    LET st == Start(i, apiKey, r)
    IN /\ gpc' = st.gpc
       /\ exit' = st.exit
       /\ result' = st.result
       /\ IF st.gpc = "fetching"
          THEN /\ idx' = 1
               /\ calls' = << models[1] >>
               /\ abortTimer' = Armed(now + ABORT_MS)
          ELSE UNCHANGED << idx, calls, abortTimer >>
       /\ UNCHANGED << outcomes, lastError >>

----------------------------------------------------------------------------
(* Actions *)

Respond(resp) ==
    /\ response' = resp
    /\ sent' = sent + 1
    /\ rpc' = "done"

(* A request body: absent (req.body undefined), or an object with idea *)
Bodies ==
    { [present |-> FALSE, idea |-> JUndefined] }
        \cup { [present |-> TRUE, idea |-> v] : v \in IdeaValues }

(* !idea || typeof idea !== 'string' *)
IdeaMissing(v) == Falsy(v) \/ v.t # "string"

(* As IdeaOverCeiling, measured on the trimmed idea *)
IdeaOverCeilingTrimmed(v) == StrLen(Trim(v.s)) > MaxIdeaLength

(* idea.length > 4000 *)
IdeaOverCeiling(v) == StrLen(v.s) > MaxIdeaLength

(* router.post('/generate'), up to its await of Promise.race *)
PostGenerate(body, r) ==
    /\ caller = "none"
    /\ caller' = "route"
    /\ idea' = body.idea
    /\ reqBody' = IF body.present THEN "object" ELSE "undefined"
    /\ UNCHANGED << apiKey, now, otherVars >>
    /\ IF ~body.present
       THEN /\ Respond(UnexpectedResponse("Cannot destructure property 'idea'"))
            /\ UNCHANGED << routeTimer, gpVars >>
       ELSE IF IdeaMissing(body.idea)
       THEN /\ Respond(IdeaRequired)
            /\ UNCHANGED << routeTimer, gpVars >>
       ELSE IF IdeaOverCeiling(body.idea)
       THEN /\ Respond(IdeaTooLong)
            /\ UNCHANGED << routeTimer, gpVars >>
       ELSE LET st == Start(body.idea, apiKey, r)
            IN /\ StartGenerateProposal(body.idea, r)
               /\ routeTimer' = Armed(now + TIMEOUT_MS)
               /\ IF st.gpc = "returned" THEN Respond(SuccessResponse(st.result))
                  ELSE IF st.gpc = "rejected" THEN Respond(UnexpectedResponse(SubstringMessage))
                  ELSE /\ rpc' = "racing"
                       /\ UNCHANGED << response, sent >>

(* generateProposal called by another caller than the route *)
CallGenerateProposal(i, r) ==
    /\ caller = "none"
    /\ caller' = "direct"
    /\ idea' = i
    /\ StartGenerateProposal(i, r)
    /\ UNCHANGED << apiKey, now, reqBody, routeVars, otherVars >>

(* As RouteOnSettle, but the handler answers whether or not it has answered *)
RouteOnSettleAgain(res) ==
    Respond(SuccessResponse(res)) /\ UNCHANGED routeTimer

(* The awaiting route handler resumes when generateProposal's promise settles *)
RouteOnSettle(res) ==
    IF rpc = "racing"
    THEN Respond(SuccessResponse(res)) /\ UNCHANGED routeTimer
    ELSE UNCHANGED routeVars

Return(label, res) ==
    /\ gpc' = "returned"
    /\ exit' = label
    /\ result' = res
    /\ RouteOnSettle(res)

(* As Cleared, without the clearTimeout *)
NotCleared(timer) == timer

Cleared(timer) == [timer EXCEPT !.state = IF timer.state = "armed" THEN "cleared" ELSE @]

(* The call in flight settles and the loop runs on to its next await or return *)
FetchSettles(o, r) ==
    /\ gpc = "fetching"
    /\ outcomes' = Append(outcomes, o)
    /\ UNCHANGED << apiKey, now, caller, idea, reqBody, otherVars >>
    /\ LET d == HandleOutcome(models[idx], o)
           fallback == getEnhancedFallback(trimmedIdea(idea), r)
       IN IF d.next = "ai"
          THEN /\ Return("ai", Plain(d.proposal, "ai"))
               /\ abortTimer' = Cleared(abortTimer)
               /\ UNCHANGED << idx, calls, lastError >>
          ELSE IF d.next = "quota"
          THEN /\ Return("quota", WithError(fallback, QuotaExceededError))
               /\ abortTimer' = Cleared(abortTimer)
               /\ UNCHANGED << idx, calls, lastError >>
          ELSE IF d.next = "auth"
          THEN /\ Return("auth", WithError(fallback, AuthError))
               /\ abortTimer' = Cleared(abortTimer)
               /\ UNCHANGED << idx, calls, lastError >>
          ELSE IF d.next = "continue" /\ idx < Len(models)
          THEN /\ lastError' = LastError(d.message)
               /\ idx' = idx + 1
               /\ calls' = Append(calls, models[idx + 1])
               /\ UNCHANGED << gpc, exit, result, abortTimer, routeVars >>
          ELSE /\ lastError' = LastError(d.message)
               /\ Return("all_failed", WithError(fallback, AllModelsFailed(LastError(d.message))))
               /\ abortTimer' = Cleared(abortTimer)
               /\ UNCHANGED << idx, calls >>

Due(timer) == timer.state = "armed" /\ now >= timer.at

(* setTimeout(() => controller.abort(), 30000) fires: the call in flight   *)
(* rejects with an AbortError and the loop breaks                          *)
AbortFires(r) ==
    /\ Due(abortTimer)
    /\ gpc = "fetching"
    /\ abortTimer' = [abortTimer EXCEPT !.state = "fired"]
    /\ outcomes' = Append(outcomes, Aborted)
    /\ LET d == HandleOutcome(models[idx], Aborted)
       IN /\ lastError' = LastError(d.message)
          /\ Return("all_failed",
                    WithError(getEnhancedFallback(trimmedIdea(idea), r),
                              AllModelsFailed(LastError(d.message))))
    /\ UNCHANGED << apiKey, now, caller, idea, reqBody, idx, calls, otherVars >>

(* The timer of timeout(TIMEOUT_MS) fires: the race rejects if still open *)
RouteTimerFires ==
    /\ Due(routeTimer)
    /\ routeTimer' = [routeTimer EXCEPT !.state = "fired"]
    /\ IF rpc = "racing" THEN Respond(TimeoutResponse)
       ELSE UNCHANGED << rpc, response, sent >>
    /\ UNCHANGED << apiKey, now, caller, idea, reqBody, gpVars, otherVars >>

(* Time passes; a timer that is due fires before time passes further *)
Tick ==
    /\ caller # "none"
    /\ gpc = "fetching" \/ routeTimer.state = "armed"
    /\ ~Due(routeTimer)
    /\ ~Due(abortTimer)
    /\ now < MaxTime
    /\ now' = now + TickMs
    /\ UNCHANGED << apiKey, caller, idea, reqBody, routeVars, gpVars, otherVars >>

Next ==
    \/ \E body \in Bodies, r \in TemplateIndexes : PostGenerate(body, r)
    \/ \E i \in IdeaValues, r \in TemplateIndexes : CallGenerateProposal(i, r)
    \/ \E o \in Outcomes, r \in TemplateIndexes : FetchSettles(o, r)
    \/ \E r \in TemplateIndexes : AbortFires(r)
    \/ RouteTimerFires
    \/ Tick

Spec == Init /\ [][Next]_vars


----------------------------------------------------------------------------
(* Properties *)

(* The Proposal invariant of the data model *)
IsText(v) == v.t = "string" /\ v.s # << >> /\ \A k \in 1..Len(v.s) : v.s[k].n >= 1

IsTextList(v) == v.t = "array" /\ v.a # << >> /\ \A k \in 1..Len(v.a) : IsText(v.a[k])

ProposalInvariant(p) ==
    /\ \A f \in { "title", "objective", "targetAudience" } : IsText(p[f])
    /\ \A f \in { "features", "considerations" } : IsTextList(p[f])

IsStringIdea == idea.t = "string"

Answered(o, status) == o.kind = "response" /\ o.status = status

(* C1, as stated: every idea string of at most 4000 characters sent to     *)
(* POST /generate is answered with success=true and a valid Proposal.      *)
C1_AsStated ==
    (caller = "route" /\ rpc = "done" /\ IsStringIdea /\ StrLen(idea.s) <= 4000)
        => (response.success /\ response.hasData /\ ProposalInvariant(response.data))

(* C1, amended: every non-empty idea string of at most 4000 characters     *)
(* sent to POST /generate is answered 200 with success=true and a valid    *)
(* Proposal when the orchestrator settles before the route's deadline, and *)
(* 408 with success=false only after the deadline timer has fired; the     *)
(* empty string is answered 400.                                           *)
C1_Amended ==
    (caller = "route" /\ rpc = "done" /\ IsStringIdea /\ StrLen(idea.s) <= 4000)
        => IF StrLen(idea.s) = 0
           THEN response.status = 400 /\ ~response.success /\ gpc = "idle"
           ELSE \/ /\ response.status = 200
                   /\ response.success
                   /\ response.hasData
                   /\ ProposalInvariant(response.data)
                   /\ response.source \in { "ai", "fallback" }
                \/ /\ response.status = 408
                   /\ ~response.success
                   /\ routeTimer.state = "fired"

C1_Witness ==
    /\ caller = "route"
    /\ rpc = "done"
    /\ StrLen(idea.s) = 4000
    /\ response.status = 200
    /\ response.hasError
    /\ Len(calls) = 3

(* C2: every ProposalResult that generateProposal returns carries a        *)
(* proposal that satisfies the Proposal invariant.                         *)
C2_ResultProposalValid ==
    gpc = "returned" => ProposalInvariant(result.proposal)

C2_Witness ==
    /\ gpc = "returned"
    /\ result.source = "ai"
    /\ Len(outcomes) = 3
    /\ outcomes[1].text = BlankFeature

(* A success answer whose text parses to a proposal that passes validation *)
ValidAnswer(o) ==
    /\ Answered(o, 200)
    /\ o.body = "text"
    /\ cleanAndParseJSON(o.text).ok

(* C3: the result has source "ai" exactly when some call was answered with *)
(* a success status and a text that parses and validates; that call is the *)
(* last one made, its proposal is the one returned, and no error is        *)
(* attached.  Every other result has source "fallback".                    *)
C3_AiIffValidatedAnswer ==
    /\ \A k \in 1..Len(outcomes) :
           ValidAnswer(outcomes[k])
               => /\ k = Len(outcomes)
                  /\ Len(calls) = k
                  /\ gpc = "returned"
                  /\ result.source = "ai"
                  /\ result.proposal = ObjectMembers["valid"]
                  /\ ~result.hasError
    /\ gpc = "returned"
           => /\ result.source \in { "ai", "fallback" }
              /\ result.source = "ai"
                     => (outcomes # << >> /\ ValidAnswer(outcomes[Len(outcomes)]))

C3_Witness ==
    /\ gpc = "returned"
    /\ result.source = "ai"
    /\ Len(calls) = 2
    /\ Answered(outcomes[1], 404)

(* C4, as stated: a call answered 429 ends generateProposal at once; no    *)
(* later candidate is called and the result is a fallback with a           *)
(* QUOTA_EXCEEDED error that is not retryable.                             *)
C4_QuotaStops ==
    \A k \in 1..Len(outcomes) :
        Answered(outcomes[k], 429)
            => /\ Len(calls) = k
               /\ gpc = "returned"
               /\ result.source = "fallback"
               /\ result.hasError
               /\ result.error.type = "QUOTA_EXCEEDED"
               /\ ~result.error.retryable

C6_AuthStops ==
    \A k \in 1..Len(outcomes) :
        (Answered(outcomes[k], 401) \/ Answered(outcomes[k], 403))
            => /\ Len(calls) = k
               /\ gpc = "returned"
               /\ result.source = "fallback"
               /\ result.hasError
               /\ result.error.type = "AUTH_ERROR"
               /\ ~result.error.retryable

AllNotFound == \A k \in 1..Len(outcomes) : Answered(outcomes[k], 404)

(* C7: while every call made so far was answered 404, the calls made are   *)
(* the candidates in list order, the next candidate is called as long as   *)
(* one remains, and the result, a fallback, is returned only after all     *)
(* three were called once.                                                 *)
C7_AllNotFoundTriesAll ==
    (calls # << >> /\ AllNotFound)
        => IF Len(outcomes) < 3
           THEN /\ gpc = "fetching"
                /\ calls = SubSeq(<< "gemini-pro", "gemini-1.0-pro", "gemini-1.5-flash-latest" >>,
                                  1, Len(outcomes) + 1)
           ELSE /\ gpc = "returned"
                /\ calls = << "gemini-pro", "gemini-1.0-pro", "gemini-1.5-flash-latest" >>
                /\ result.source = "fallback"

C7_Witness ==
    /\ gpc = "returned"
    /\ Len(outcomes) = 3
    /\ AllNotFound

(* The message of the failure a call ended in, as the loop records it *)
FailureMessage(model, o) ==
    IF o.kind = "aborted" THEN "Request timeout across all models"
    ELSE IF o.kind = "network" THEN "fetch failed"
    ELSE IF o.body = "null" THEN "Cannot read properties of null"
    ELSE IF o.status = 404 THEN "Model " \o model \o " not found"
    ELSE IF o.status = 500 THEN "HTTP 500: Unknown error"
    ELSE IF o.body = "notext" THEN "Empty response from AI model"
    ELSE IF o.text = TwoObjects THEN "JSON parsing failed: Unexpected token in JSON"
    ELSE "JSON parsing failed: Proposal validation failed - missing required fields"

(* C8: when the loop ends after the last candidate without a validated     *)
(* response, the result is a fallback whose error has type                 *)
(* MODEL_NOT_FOUND, is retryable, and carries the message of the failure   *)
(* of the last candidate tried.                                            *)
C8_ExhaustedError ==
    (gpc = "returned" /\ exit = "all_failed" /\ Len(outcomes) = 3)
        => /\ result.source = "fallback"
           /\ result.hasError
           /\ result.error.type = "MODEL_NOT_FOUND"
           /\ result.error.retryable
           /\ result.error.message = FailureMessage(calls[3], outcomes[3])
           /\ lastError = [set |-> TRUE, message |-> result.error.message]

C8_Witness ==
    /\ gpc = "returned"
    /\ exit = "all_failed"
    /\ Len(outcomes) = 3
    /\ outcomes[1].kind = "network"
    /\ Answered(outcomes[2], 500)
    /\ Answered(outcomes[3], 404)
    /\ result.error.message = "Model gemini-1.5-flash-latest not found"

(* C9, as stated: an aborted call ends the loop; no further candidate is   *)
(* called and the result is a fallback whose error has the kind Timeout    *)
(* and is retryable.                                                       *)
C9_AbortIsTimeout ==
    \A k \in 1..Len(outcomes) :
        outcomes[k].kind = "aborted"
            => /\ Len(calls) = k
               /\ gpc = "returned"
               /\ result.source = "fallback"
               /\ result.hasError
               /\ result.error.retryable
               /\ result.error.type \in { "TIMEOUT", "TIMEOUT_ERROR", "Timeout" }

IsBlankIdea == IsStringIdea /\ \A k \in 1..Len(idea.s) : idea.s[k].c = " "

KeyConfigured == apiKey # "" /\ apiKey # "your_google_ai_api_key_here"

(* C11, as stated: whatever the credential, a call of generateProposal     *)
(* with an empty or blank idea returns a fallback with a VALIDATION_ERROR   *)
(* that is not retryable, and makes no outbound call.                      *)
C11_AsStated ==
    (gpc # "idle" /\ IsBlankIdea)
        => /\ gpc = "returned"
           /\ calls = << >>
           /\ result.source = "fallback"
           /\ result.hasError
           /\ result.error.type = "VALIDATION_ERROR"
           /\ ~result.error.retryable

(* C11, amended: a call of generateProposal with an empty or blank idea    *)
(* makes no outbound call and returns a fallback; with a credential        *)
(* configured the result carries a VALIDATION_ERROR that is not retryable, *)
(* and with the credential absent or the placeholder it carries no error.  *)
C11_Amended ==
    (gpc # "idle" /\ IsBlankIdea)
        => /\ gpc = "returned"
           /\ calls = << >>
           /\ outcomes = << >>
           /\ result.source = "fallback"
           /\ ProposalInvariant(result.proposal)
           /\ IF KeyConfigured
              THEN /\ result.hasError
                   /\ result.error.type = "VALIDATION_ERROR"
                   /\ ~result.error.retryable
              ELSE ~result.hasError

C11_Witness ==
    /\ KeyConfigured
    /\ caller = "route"
    /\ IsBlankIdea
    /\ StrLen(idea.s) >= 1
    /\ gpc = "returned"
    /\ result.error.type = "VALIDATION_ERROR"
    /\ response.status = 200

(* The string between the first and the last run of s *)
Inner(s) == SubSeq(s, 2, Len(s) - 1)

(* C12: with a credential configured, a call of generateProposal with an   *)
(* idea whose trimmed length exceeds 4000 makes no outbound call and       *)
(* returns a fallback with a VALIDATION_ERROR that is not retryable; the   *)
(* fallback is built from the first 4000 characters of the trimmed idea:   *)
(* its objective quotes exactly those, and its title their first 50 and    *)
(* the ellipsis.                                                           *)
C12_TooLongFallback ==
    (KeyConfigured /\ gpc # "idle" /\ IsStringIdea /\ StrLen(Trim(idea.s)) > 4000)
        => /\ gpc = "returned"
           /\ calls = << >>
           /\ outcomes = << >>
           /\ abortTimer.state = "unset"
           /\ result.source = "fallback"
           /\ result.hasError
           /\ result.error.type = "VALIDATION_ERROR"
           /\ ~result.error.retryable
           /\ ProposalInvariant(result.proposal)
           /\ Len(result.proposal.objective.s) >= 3
           /\ Inner(result.proposal.objective.s) = Substring0(Trim(idea.s), 4000)
           /\ StrLen(Inner(result.proposal.objective.s)) = 4000
           /\ Len(result.proposal.title.s) >= 3
           /\ Inner(result.proposal.title.s) = Substring0(Trim(idea.s), 50)
           /\ StrLen(Inner(result.proposal.title.s)) = 50
           /\ result.proposal.title.s[Len(result.proposal.title.s)].c = "..."

C12_Witness ==
    /\ KeyConfigured
    /\ caller = "direct"
    /\ gpc = "returned"
    /\ idea.t = "string"
    /\ idea.s = << [c |-> " ", n |-> 1], [c |-> "x", n |-> 4001] >>
    /\ result.error.message = "Input too long"


C14_RaceOneResponse ==
    /\ [](/\ sent <= 1
          /\ (rpc = "done") <=> (sent = 1)
          /\ response.status = 408
                 => (routeTimer.state = "fired" /\ ~response.success /\ now >= 15000)
          /\ (caller = "route" /\ response.status = 200) => gpc = "returned")
    /\ [][rpc = "done" => (rpc' = "done" /\ response' = response /\ sent' = sent)]_vars
    /\ [][(rpc = "racing" /\ routeTimer.state = "armed" /\ routeTimer'.state = "fired")
              => (response'.status = 408 /\ sent' = 1 /\ gpc' = gpc /\ gpc = "fetching")]_vars
    /\ [][(rpc = "racing" /\ gpc' = "returned")
              => (response'.status = 200 /\ sent' = 1 /\ response'.data = result'.proposal)]_vars

C14_Witness ==
    /\ caller = "route"
    /\ response.status = 408
    /\ sent = 1
    /\ gpc = "returned"
    /\ result.source = "ai"

(* C15: every response of POST /generate whose status is neither 400 nor   *)
(* 408 carries a valid Proposal and a source.  A request on which          *)
(* generateProposal returns before the timer fires is answered 200 with    *)
(* success=true, the result's proposal and source, and an error descriptor *)
(* exactly when the result has an error, taken from it; a request whose    *)
(* handler throws is answered 500 with the fixed fallback Proposal and     *)
(* source "fallback".                                                      *)
C15_ResponseCarriesProposal ==
    /\ (rpc = "done" /\ response.status \notin { 400, 408 })
           => /\ response.status \in { 200, 500 }
              /\ response.hasData
              /\ ProposalInvariant(response.data)
              /\ response.source \in { "ai", "fallback" }
    /\ (rpc = "done" /\ response.status = 200)
           => /\ response.success
              /\ gpc = "returned"
              /\ response.data = result.proposal
              /\ response.source = result.source
              /\ response.hasError = result.hasError
              /\ response.hasError
                     => /\ response.error.type = result.error.type
                        /\ response.error.retryable = result.error.retryable
                        /\ response.error.message = result.error.userMessage
                        /\ response.error.technicalDetails = result.error.message
    /\ (caller = "route" /\ gpc = "returned" /\ routeTimer.state # "fired")
           => (rpc = "done" /\ response.status = 200)
    /\ (rpc = "done" /\ response.status = 500)
           => /\ ~response.success
              /\ response.source = "fallback"
              /\ response.data.title = JStr(Lit("Project Proposal"))
              /\ Len(response.data.features.a) = 3
              /\ Len(response.data.considerations.a) = 3
              /\ response.hasError
              /\ response.error.type = "UNEXPECTED_ERROR"

C15_Witness ==
    /\ caller = "route"
    /\ reqBody = "undefined"
    /\ rpc = "done"
    /\ response.status = 500
    /\ response.hasData

(* C16, as stated: the promise of generateProposal never rejects, whatever *)
(* the idea value, the credential and the outcomes of the calls.           *)
C16_NeverRejects == gpc # "rejected"

(* C17: in every result with an error the retryable flag follows the       *)
(* error type: VALIDATION_ERROR, QUOTA_EXCEEDED and AUTH_ERROR are not     *)
(* retryable, MODEL_NOT_FOUND (which an aborted request also gets) and     *)
(* UNKNOWN_ERROR are, and there is no other type.  The retryable           *)
(* VALIDATION_ERROR that cleanAndParseJSON throws never reaches a result:  *)
(* a result's VALIDATION_ERROR comes from the input checks, before any     *)
(* call.                                                                   *)
C17_RetryableByType ==
    (gpc = "returned" /\ result.hasError)
        => /\ result.error.type \in { "VALIDATION_ERROR", "QUOTA_EXCEEDED", "AUTH_ERROR",
                                      "MODEL_NOT_FOUND", "UNKNOWN_ERROR" }
           /\ result.error.type \in { "VALIDATION_ERROR", "QUOTA_EXCEEDED", "AUTH_ERROR" }
                  => ~result.error.retryable
           /\ result.error.type \in { "MODEL_NOT_FOUND", "UNKNOWN_ERROR" }
                  => result.error.retryable
           /\ (outcomes # << >> /\ outcomes[Len(outcomes)].kind = "aborted")
                  => result.error.retryable
           /\ result.error.type = "VALIDATION_ERROR" => calls = << >>

C17_Witness ==
    /\ gpc = "returned"
    /\ result.hasError
    /\ Len(outcomes) = 3
    /\ Answered(outcomes[2], 404)
    /\ outcomes[3].body = "text"
    /\ ~cleanAndParseJSON(outcomes[3].text).ok
    /\ cleanAndParseJSON(outcomes[3].text).type = "VALIDATION_ERROR"
    /\ cleanAndParseJSON(outcomes[3].text).retryable
    /\ result.error.type = "MODEL_NOT_FOUND"
    /\ result.error.retryable


----------------------------------------------------------------------------
(* getEnhancedFallback on its own *)

generateVars == << apiKey, now, caller, idea, reqBody, routeVars, gpVars >>

(* The ideas given to getEnhancedFallback: every length up to a little     *)
(* over the title prefix, with and without blanks around, and values that  *)
(* are no strings                                                          *)
FallbackIdeas ==
    { IdeaString(l, k, t) :
          l \in 0..MaxPad, k \in 0..(TitlePrefixLength + MaxOver), t \in 0..MaxPad }
        \cup { JUndefined, JNumber }

FallbackInit ==
    /\ apiKey = ""
    /\ GenerateIdle
    /\ PdfIdle
    /\ UiIdle
    /\ fbIdea \in FallbackIdeas
    /\ fbPc = "ready"
    /\ fbProposal = NoProposal

(* One invocation of getEnhancedFallback(fbIdea); it may be invoked again *)
CallGetEnhancedFallback(r) ==
    /\ fbPc # "idle"
    /\ IF FallbackThrows(fbIdea)
       THEN /\ fbPc' = "threw"
            /\ UNCHANGED fbProposal
       ELSE /\ fbPc' = "returned"
            /\ fbProposal' = getEnhancedFallback(fbIdea, r)
    /\ UNCHANGED << fbIdea, generateVars, pdfVars, uiVars >>

FallbackNext == \E r \in TemplateIndexes : CallGetEnhancedFallback(r)

FallbackSpec == FallbackInit /\ [][FallbackNext]_vars

(* p is the first characters of s *)
IsPrefix(p, s) ==
    /\ Len(p) <= Len(s)
    /\ \A k \in 1..Len(p) :
           /\ p[k].c = s[k].c
           /\ p[k].n <= s[k].n
           /\ k < Len(p) => p[k].n = s[k].n

(* C18: for every idea string getEnhancedFallback returns, on every        *)
(* invocation and whichever template is drawn, one of its two templates,   *)
(* which satisfies the Proposal invariant; its title is the template's     *)
(* heading, then the first 50 characters of the idea (all of it when it is *)
(* shorter), then "..." exactly when the idea has more than 50 characters. *)
C18_FallbackShape ==
    (fbPc \notin { "idle", "ready" } /\ fbIdea.t = "string")
        => /\ fbPc = "returned"
           /\ ProposalInvariant(fbProposal)
           /\ Len(fbProposal.features.a) = 8
           /\ Len(fbProposal.considerations.a) = 8
           /\ fbProposal.title.s[1].c \in { "Strategic Initiative: ", "Project Catalyst: " }
           /\ IF StrLen(fbIdea.s) > 50
              THEN /\ fbProposal.title.s[Len(fbProposal.title.s)].c = "..."
                   /\ StrLen(Inner(fbProposal.title.s)) = 50
                   /\ IsPrefix(Inner(fbProposal.title.s), fbIdea.s)
              ELSE Tail(fbProposal.title.s) = fbIdea.s

C18_Witness ==
    /\ fbPc = "returned"
    /\ fbIdea.t = "string"
    /\ fbIdea.s = << [c |-> " ", n |-> 1], [c |-> "x", n |-> 50] >>
    /\ fbProposal.title.s
           = << [c |-> "Project Catalyst: ", n |-> 18], [c |-> " ", n |-> 1],
                [c |-> "x", n |-> 49], [c |-> "...", n |-> 3] >>

----------------------------------------------------------------------------
(* POST /generate-pdf *)

TitleChars == { "a", "Z", "7", "_", "/", " " }

Titles ==
    { Chars(cs) : cs \in UNION { [1..n -> TitleChars] : n \in 1..MaxTitleLen } }
        \cup { Chars(<< "A", "/", "B", ":", " ", "T", "e", "s", "t", "!" >>) }

(* proposal.title: absent, the empty string, a number, or a string *)
TitleValues == Titles \cup { JUndefined, JStr(<< >>), JNumber }

(* req.body: undefined, an object without proposal, or one with a proposal *)
PdfBodies ==
    { PdfBody(FALSE, FALSE, JUndefined), PdfBody(TRUE, FALSE, JUndefined) }
        \cup { PdfBody(TRUE, TRUE, t) : t \in TitleValues }

PdfInit ==
    /\ apiKey = ""
    /\ GenerateIdle
    /\ FallbackIdle
    /\ PdfIdle
    /\ UiIdle

PdfRespond(resp) ==
    /\ pdfResponse' = resp
    /\ pdfSent' = pdfSent + 1
    /\ ppc' = "done"

(* router.post('/generate-pdf'), up to its await of Promise.race *)
PostGeneratePdf(body) ==
    /\ ppc = "idle"
    /\ pdfBody' = body
    /\ UNCHANGED << generateVars, fbVars, uiVars >>
    /\ IF ~body.present
       THEN /\ PdfRespond(PdfFailed)
            /\ UNCHANGED << pdfTimer, pdfGen >>
       ELSE IF ~body.hasProposal \/ Falsy(body.title)
       THEN /\ PdfRespond(ProposalRequired)
            /\ UNCHANGED << pdfTimer, pdfGen >>
       ELSE /\ pdfGen' = "pending"
            /\ pdfTimer' = Armed(now + PDF_TIMEOUT_MS)
            /\ ppc' = "racing"
            /\ UNCHANGED << pdfResponse, pdfSent >>

(* The promise of generatePDF settles; the awaiting handler resumes: it    *)
(* sets the headers and sends the buffer, and title.replace throws a       *)
(* TypeError when the title is no string                                   *)
GeneratePdfSettles(ok) ==
    /\ pdfGen = "pending"
    /\ pdfGen' = IF ok THEN "resolved" ELSE "rejected"
    /\ IF ppc = "racing"
       THEN IF ok /\ pdfBody.title.t = "string"
            THEN PdfRespond(PdfAttachment(pdfBody.title))
            ELSE PdfRespond(PdfFailed)
       ELSE UNCHANGED << ppc, pdfResponse, pdfSent >>
    /\ UNCHANGED << pdfBody, pdfTimer, generateVars, fbVars, uiVars >>

(* The timer of timeout(TIMEOUT_MS) fires: the race rejects if still open *)
PdfTimerFires ==
    /\ Due(pdfTimer)
    /\ pdfTimer' = [pdfTimer EXCEPT !.state = "fired"]
    /\ IF ppc = "racing" THEN PdfRespond(PdfTimeout)
       ELSE UNCHANGED << ppc, pdfResponse, pdfSent >>
    /\ UNCHANGED << pdfBody, pdfGen, generateVars, fbVars, uiVars >>

(* Time passes; the timer, once due, fires before time passes further *)
PdfTick ==
    /\ pdfTimer.state = "armed"
    /\ ~Due(pdfTimer)
    /\ now < MaxTime
    /\ now' = now + TickMs
    /\ UNCHANGED << apiKey, caller, idea, reqBody, routeVars, gpVars, fbVars, pdfVars, uiVars >>

PdfNext ==
    \/ \E body \in PdfBodies : PostGeneratePdf(body)
    \/ \E ok \in BOOLEAN : GeneratePdfSettles(ok)
    \/ PdfTimerFires
    \/ PdfTick

PdfSpec == PdfInit /\ [][PdfNext]_vars

(* C19, as stated, for requests that have a body: POST /generate-pdf       *)
(* answers 400 exactly when the body has no proposal or the proposal has   *)
(* no non-empty title, and then generatePDF is not called; otherwise 408   *)
(* is answered only after the timer fired, 500 only after generatePDF      *)
(* failed, and when generatePDF succeeds before the timer fires the buffer *)
(* is sent as application/pdf with an attachment disposition; one response *)
(* is sent per request.                                                    *)
C19_AsStated ==
    (pdfBody.present /\ ppc # "idle")
        => /\ pdfSent <= 1
           /\ (ppc = "done") <=> (pdfSent = 1)
           /\ (pdfResponse.status = 400)
                  <=> (~pdfBody.hasProposal \/ pdfBody.title.t = "undefined"
                           \/ (pdfBody.title.t = "string" /\ StrLen(pdfBody.title.s) = 0))
           /\ pdfResponse.status = 400 => (pdfGen = "none" /\ pdfTimer.state = "unset")
           /\ pdfResponse.status = 408 => pdfTimer.state = "fired"
           /\ pdfResponse.status = 500 => pdfGen = "rejected"
           /\ (pdfGen = "resolved" /\ pdfTimer.state # "fired")
                  => /\ pdfResponse.status = 200
                     /\ pdfResponse.kind = "buffer"
                     /\ pdfResponse.contentType = "application/pdf"
                     /\ pdfResponse.disposition # << >>
                     /\ pdfResponse.disposition[1].c = "attachment; filename=\""

AlphaNumeric == LowerCase \cup UpperCase \cup Digits

(* C20: the attachment's file name is the title with every character       *)
(* outside A-Z, a-z, 0-9 replaced by one underscore, followed by ".pdf":   *)
(* the name has the title's length, only alphanumeric characters and       *)
(* underscores, and every alphanumeric character of the title in place.    *)
C20_FilenameSanitised ==
    pdfResponse.kind = "buffer"
        => LET d == pdfResponse.disposition
               name == Inner(d)
               title == pdfBody.title.s
           IN /\ Len(d) >= 3
              /\ d[1].c = "attachment; filename=\""
              /\ d[Len(d)].c = ".pdf\""
              /\ Len(name) = Len(title)
              /\ StrLen(name) = StrLen(title)
              /\ \A k \in 1..Len(name) :
                     /\ name[k].n = title[k].n
                     /\ name[k].c \in AlphaNumeric \cup { "_" }
                     /\ title[k].c \in AlphaNumeric => name[k].c = title[k].c
                     /\ title[k].c \notin AlphaNumeric => name[k].c = "_"

C20_Witness ==
    /\ pdfResponse.kind = "buffer"
    /\ pdfBody.title = Chars(<< "A", "/", "B", ":", " ", "T", "e", "s", "t", "!" >>)
    /\ Inner(pdfResponse.disposition)
           = Chars(<< "A", "_", "B", "_", "_", "T", "e", "s", "t", "_" >>).s


----------------------------------------------------------------------------
(* The candidate loop *)

(* A call that ended in a failure other than 429, 401, 403 and an abort *)
Skippable(o) ==
    \/ o.kind = "network"
    \/ /\ o.kind = "response"
       /\ \/ o.status \notin { 200, 429, 401, 403 }
          \/ o.status = 200 /\ ~ValidAnswer(o)

(* C22: a call that ends in 404, in another non-success status than 429,   *)
(* 401 and 403, in a network failure, in a success answer without text, or *)
(* in a text that fails extraction, parsing or validation never ends the   *)
(* request while a candidate remains: its failure becomes the recorded     *)
(* last error and the next candidate of the list is called at once; only   *)
(* after the last candidate does the request end.                          *)
C22_SkipAndContinue ==
    \A k \in 1..Len(outcomes) :
        Skippable(outcomes[k])
            => /\ k < 3
                   => /\ Len(calls) >= k + 1
                      /\ calls[k + 1]
                             = models[k + 1]
               /\ (k < 3 /\ k = Len(outcomes)) => (gpc = "fetching" /\ exit = "none")
               /\ k = Len(outcomes)
                      => lastError = [set |-> TRUE, message |-> FailureMessage(calls[k], outcomes[k])]
               /\ k = 3 => (gpc = "returned" /\ exit = "all_failed")

C22_Witness ==
    /\ gpc = "fetching"
    /\ Len(calls) = 3
    /\ outcomes[1].kind = "network"
    /\ outcomes[2].kind = "response"
    /\ outcomes[2].status = 200
    /\ outcomes[2].body = "notext"
    /\ lastError.message = "Empty response from AI model"

(* C23: within one call of generateProposal at most one candidate call is  *)
(* in flight, a candidate is called only when the outcomes of all earlier  *)
(* calls are known, no candidate is called twice, and there are never more *)
(* than three calls.                                                       *)
C23_Sequential ==
    /\ [](/\ Len(calls) <= 3
          /\ Len(calls) - Len(outcomes) \in { 0, 1 }
          /\ (gpc = "fetching") <=> (Len(calls) = Len(outcomes) + 1)
          /\ \A i, j \in 1..Len(calls) : i # j => calls[i] # calls[j])
    /\ [][calls' # calls
              => /\ Len(outcomes') = Len(calls)
                 /\ calls' = Append(calls, calls'[Len(calls')])]_vars

C23_Witness ==
    /\ gpc = "fetching"
    /\ Len(calls) = 3
    /\ Len(outcomes) = 2
    /\ Answered(outcomes[1], 500)
    /\ Answered(outcomes[2], 404)

RECURSIVE WithoutFences(_)
WithoutFences(ts) ==
    IF ts = << >> THEN << >>
    ELSE IF Head(ts) \in { "fence_json", "fence", " " } THEN WithoutFences(Tail(ts))
    ELSE << Head(ts) >> \o WithoutFences(Tail(ts))

(* The first JSON object of the text, fences and blanks apart, is a valid  *)
(* proposal: after the first opening brace come the members of a proposal  *)
(* that satisfies the invariant, and a closing brace                       *)
FirstObjectValid(text) ==
    LET ts == WithoutFences(text)
        opens == { i \in 1..Len(ts) : ts[i] = "{" }
    IN /\ opens # {}
       /\ LET i == CHOOSE x \in opens : \A y \in opens : x <= y
          IN /\ i + 2 <= Len(ts)
             /\ ts[i + 1] \in DOMAIN ObjectMembers
             /\ ProposalInvariant(ObjectMembers[ts[i + 1]])
             /\ ts[i + 2] = "}"

(* C24, as stated: the text of a success answer yields a proposal exactly  *)
(* when its first JSON object, code fences removed, parses to a proposal   *)
(* with non-empty title, objective and targetAudience and non-empty        *)
(* features and considerations of non-empty strings.                       *)
C24_AsStated ==
    \A k \in 1..Len(outcomes) :
        (Answered(outcomes[k], 200) /\ outcomes[k].body = "text")
            => ((k = Len(outcomes) /\ gpc = "returned" /\ result.source = "ai")
                    <=> FirstObjectValid(outcomes[k].text))

(* C26: the 30 s abort timer of generateProposal never determines a        *)
(* response of POST /generate: when it fires, the route's timer has fired  *)
(* and 408 without a proposal has been sent; no 200 response carries the   *)
(* result of an aborted call; and after the 408 generateProposal and its   *)
(* call run on until the call settles or the abort timer fires.            *)
C26_AbortNeverAnswers ==
    /\ [](caller = "route"
              => /\ abortTimer.state = "fired"
                     => /\ routeTimer.state = "fired"
                        /\ rpc = "done"
                        /\ response.status = 408
                        /\ ~response.hasData
                 /\ (\E k \in 1..Len(outcomes) : outcomes[k].kind = "aborted")
                        => response.status = 408
                 /\ (rpc = "done" /\ response.status = 200) => now < 30000)
    /\ [][(caller = "route" /\ routeTimer.state = "armed" /\ routeTimer'.state = "fired"
               /\ gpc = "fetching")
              => /\ response'.status = 408
                 /\ gpc' = "fetching"
                 /\ calls' = calls
                 /\ abortTimer' = abortTimer
                 /\ abortTimer.state = "armed"]_vars

C26_Witness ==
    /\ caller = "route"
    /\ response.status = 408
    /\ abortTimer.state = "fired"
    /\ gpc = "returned"
    /\ outcomes[Len(outcomes)].kind = "aborted"
    /\ now = 30000

(* C27: whenever generateProposal has returned, its abort timer is not     *)
(* armed: it was cleared on the return after an AI answer, a quota or      *)
(* authorization failure and the end of the loop, or it had fired and      *)
(* broken the loop; the returns before the timer is set (no credential,    *)
(* input validation) and a rejection leave it unset.                       *)
C27_TimerNotLeftArmed ==
    /\ gpc \in { "returned", "rejected" } => abortTimer.state # "armed"
    /\ gpc = "fetching" => abortTimer.state = "armed"
    /\ (gpc = "returned" /\ exit \in { "ai", "quota", "auth" }) => abortTimer.state = "cleared"
    /\ (gpc = "returned" /\ exit = "all_failed")
           => abortTimer.state
                  = (IF outcomes[Len(outcomes)].kind = "aborted" THEN "fired" ELSE "cleared")
    /\ (exit \in { "unconfigured", "invalid_input", "too_long", "thrown" } \/ gpc = "idle")
           => abortTimer.state = "unset"

C27_Witness ==
    /\ gpc = "returned"
    /\ exit = "quota"
    /\ abortTimer.state = "cleared"
    /\ Len(calls) = 2
    /\ now = 15000

----------------------------------------------------------------------------
(* ProposalGenerator, the component of the frontend, with the replies of   *)
(* POST /generate to its requests                                          *)

ClientMaxIdeaLength == 2000

ClientTitlePrefixLength == 40

CLIENT_ABORT_MS == 15000

(* Bounds of the component's model *)

MaxInFlight == 2

(* As getFallbackProposal, with an empty list of features *)
getFallbackProposalNoFeatures(userIdea) ==
    [ title |-> JStr(Lit("Project: ") \o Substring0(userIdea.s, ClientTitlePrefixLength)),
      objective |-> JStr(Lit("This project aims to address the following need: ") \o userIdea.s),
      features |-> JArr(<< >>),
      targetAudience |-> JStr(Lit("Primary users")),
      considerations |-> StrList(<< "Technical architecture selection and infrastructure planning" >>) ]

(* getFallbackProposal: its one template, built for userIdea *)
getFallbackProposal(userIdea) ==
    [ title |-> JStr(Lit("Project: ") \o Substring0(userIdea.s, ClientTitlePrefixLength)
                \o (IF StrLen(userIdea.s) > ClientTitlePrefixLength THEN Lit("...") ELSE << >>)),
      objective |-> JStr(Lit("This project aims to address the following need: ") \o userIdea.s
          \o Lit(". We will develop a comprehensive solution that delivers exceptional value through modern technology, user-centric design, and scalable architecture.")),
      features |-> StrList(<<
          "Core functionality implementation with robust error handling",
          "Intuitive user interface with responsive design",
          "Scalable cloud-native architecture",
          "Comprehensive security and data protection",
          "Performance optimization and monitoring",
          "API integration and third-party services" >>),
      targetAudience |-> JStr(Lit("Primary users including stakeholders, end-users, and administrators who will benefit from streamlined processes and enhanced capabilities.")),
      considerations |-> StrList(<<
          "Technical architecture selection and infrastructure planning",
          "Development timeline with agile milestone delivery",
          "Resource allocation and team structure optimization",
          "Budget planning with contingency allocation",
          "Risk assessment and mitigation strategy development",
          "Compliance and regulatory requirements analysis" >>) ]

(* What the user types: nothing, a blank, a short idea, and ideas at and   *)
(* over the ceiling of the component                                       *)
UiIdeas ==
    { IdeaString(0, 0, 0), IdeaString(1, 0, 0), IdeaString(0, 1, 0),
      IdeaString(0, ClientMaxIdeaLength, 0), IdeaString(0, ClientMaxIdeaLength + 1, 0) }

(* What the user leaves in a field of the proposal: the field emptied *)
EditValues == { << >> }

(* The text inputs the user edits, and the list items (counted from 1) *)
EditFields == { "title", "objective" }

EditIndexes == { 1 }

(* Results generateProposal of the backend returns for a string idea: an   *)
(* AI proposal, and a fallback of either template with its error           *)
RouteResults(v) ==
    { Plain(ValidMembers, "ai") }
        \cup { WithError(getEnhancedFallback(v, r), QuotaExceededError) : r \in TemplateIndexes }

(* The responses of POST /generate to a request whose body is {idea: v} *)
RouteResponses(v) ==
    IF IdeaMissing(v) THEN { IdeaRequired }
    ELSE IF IdeaOverCeiling(v) THEN { IdeaTooLong }
    ELSE { SuccessResponse(res) : res \in RouteResults(v) }
             \cup { TimeoutResponse, UnexpectedResponse("Internal error") }

(* What fetch resolves with: a response of the route, or a response whose  *)
(* body is no JSON (an intermediary answered)                              *)
Reply(json, body) == [json |-> json, body |-> body]

NoReply == Reply(FALSE, NoResponse)

Replies(v) == { Reply(TRUE, b) : b \in RouteResponses(v) } \cup { Reply(FALSE, NoResponse) }

(* response.ok *)
Ok(b) == b.status >= 200 /\ b.status <= 299

Request(v, pc, timer, reply) == [idea |-> v, pc |-> pc, timer |-> timer, reply |-> reply]

Remove(seq, k) == SubSeq(seq, 1, k - 1) \o SubSeq(seq, k + 1, Len(seq))

backendVars == << apiKey, caller, idea, reqBody, routeVars, gpVars, fbVars, pdfVars >>

UiInit ==
    /\ apiKey = ""
    /\ GenerateIdle
    /\ FallbackIdle
    /\ PdfIdle
    /\ UiIdle

(* The textarea: onChange, disabled while loading *)
SetIdea(v) ==
    /\ ~loading
    /\ v # uiIdea
    /\ uiIdea' = v
    /\ UNCHANGED << now, uiProposal, loading, usingFallback, editing, editedProposal, inflight,
                    backendVars >>

(* As GenerateEnabled, without the test of loading *)
GenerateEnabledWhileLoading == Trim(uiIdea.s) # << >>

(* The Generate button is rendered enabled *)
GenerateEnabled == ~(loading \/ Trim(uiIdea.s) = << >>)

(* The Regenerate button is rendered, and enabled *)
RegenerateEnabled == ~uiProposal.isNull /\ ~editing /\ ~loading

(* generateProposal of the component, from a click on either button up to  *)
(* its await of fetch                                                      *)
ClickGenerate ==
    /\ GenerateEnabled \/ RegenerateEnabled
    /\ Len(inflight) < MaxInFlight
    /\ IF Trim(uiIdea.s) = << >> \/ StrLen(uiIdea.s) > ClientMaxIdeaLength
       THEN UNCHANGED << uiProposal, loading, usingFallback, editing, inflight >>
       ELSE /\ loading' = TRUE
            /\ uiProposal' = Null
            /\ usingFallback' = FALSE
            /\ editing' = FALSE
            /\ inflight' = Append(inflight,
                   Request(uiIdea, "fetching", Armed(now + CLIENT_ABORT_MS), NoReply))
    /\ UNCHANGED << now, uiIdea, editedProposal, backendVars >>

(* The catch block and the finally block of generateProposal *)
OnCatch(k) ==
    LET fallback == getFallbackProposal(inflight[k].idea)
    IN /\ uiProposal' = Some(fallback)
       /\ editedProposal' = Some(fallback)
       /\ usingFallback' = TRUE
       /\ loading' = FALSE
       /\ inflight' = Remove(inflight, k)
       /\ UNCHANGED << now, uiIdea, editing, backendVars >>

(* fetch resolves with a response: the timer is cleared, json is awaited *)
FetchResolves(k, reply) ==
    /\ k \in 1..Len(inflight)
    /\ inflight[k].pc = "fetching"
    /\ reply \in Replies(inflight[k].idea)
    /\ inflight' = [inflight EXCEPT ![k] =
                        Request(inflight[k].idea, "reading", Cleared(inflight[k].timer), reply)]
    /\ UNCHANGED << now, uiIdea, uiProposal, loading, usingFallback, editing, editedProposal,
                    backendVars >>

(* fetch rejects: the server cannot be reached *)
FetchRejects(k) ==
    /\ k \in 1..Len(inflight)
    /\ inflight[k].pc = "fetching"
    /\ OnCatch(k)

(* setTimeout(() => controller.abort(), 15000) fires: fetch rejects with   *)
(* an AbortError                                                           *)
ClientAbortFires(k) ==
    /\ k \in 1..Len(inflight)
    /\ inflight[k].pc = "fetching"
    /\ Due(inflight[k].timer)
    /\ OnCatch(k)

(* response.json() settles, and the rest of generateProposal runs *)
JsonSettles(k) ==
    /\ k \in 1..Len(inflight)
    /\ inflight[k].pc = "reading"
    /\ LET reply == inflight[k].reply
           data == reply.body
       IN IF ~reply.json \/ ~Ok(data) \/ ~data.success
          THEN OnCatch(k)
          ELSE /\ uiProposal' = (IF data.hasData THEN Some(data.data) ELSE Null)
               /\ editedProposal' = (IF data.hasData THEN Some(data.data) ELSE Null)
               /\ loading' = FALSE
               /\ inflight' = Remove(inflight, k)
               /\ UNCHANGED << now, uiIdea, usingFallback, editing, backendVars >>

(* The Clear all button, rendered when idea is not empty *)
clearForm ==
    /\ ~Falsy(uiIdea)
    /\ uiIdea' = JStr(<< >>)
    /\ uiProposal' = Null
    /\ editedProposal' = Null
    /\ usingFallback' = FALSE
    /\ editing' = FALSE
    /\ UNCHANGED << now, loading, inflight, backendVars >>

(* The Edit button, rendered with the proposal while not editing *)
startEditing ==
    /\ ~uiProposal.isNull
    /\ ~editing
    /\ editing' = TRUE
    /\ editedProposal' = uiProposal
    /\ UNCHANGED << now, uiIdea, uiProposal, loading, usingFallback, inflight, backendVars >>

(* The Cancel button, rendered with the proposal while editing *)
cancelEditing ==
    /\ ~uiProposal.isNull
    /\ editing
    /\ editing' = FALSE
    /\ editedProposal' = uiProposal
    /\ UNCHANGED << now, uiIdea, uiProposal, loading, usingFallback, inflight, backendVars >>

(* The Save button, rendered with the proposal while editing *)
saveEditing ==
    /\ ~uiProposal.isNull
    /\ editing
    /\ IF ~editedProposal.isNull
       THEN uiProposal' = editedProposal /\ editing' = FALSE
       ELSE UNCHANGED << uiProposal, editing >>
    /\ UNCHANGED << now, uiIdea, loading, usingFallback, editedProposal, inflight, backendVars >>

(* The text inputs of title, objective and targetAudience while editing *)
updateProposalField(field, value) ==
    /\ ~uiProposal.isNull
    /\ editing
    /\ editedProposal' =
           IF ~editedProposal.isNull
           THEN Some([editedProposal.v EXCEPT ![field] = value])
           ELSE editedProposal
    /\ UNCHANGED << now, uiIdea, uiProposal, loading, usingFallback, editing, inflight,
                    backendVars >>

(* The text input of the feature at index (counted from 1) while editing *)
updateFeature(index, value) ==
    /\ ~editedProposal.isNull
    /\ editedProposal.v.features.t = "array"
    /\ index \in 1..Len(editedProposal.v.features.a)
    /\ updateProposalField("features",
           JArr([editedProposal.v.features.a EXCEPT ![index] = JStr(value)]))

(* The text input of the consideration at index while editing *)
updateConsideration(index, value) ==
    /\ ~editedProposal.isNull
    /\ editedProposal.v.considerations.t = "array"
    /\ index \in 1..Len(editedProposal.v.considerations.a)
    /\ updateProposalField("considerations",
           JArr([editedProposal.v.considerations.a EXCEPT ![index] = JStr(value)]))

(* Time passes while a request is awaited and no timer of it is due *)
UiTick ==
    /\ \E k \in 1..Len(inflight) : inflight[k].pc = "fetching"
    /\ \A k \in 1..Len(inflight) : ~Due(inflight[k].timer)
    /\ now < MaxTime
    /\ now' = now + TickMs
    /\ UNCHANGED << uiVars, backendVars >>

UiNext ==
    \/ \E v \in UiIdeas : SetIdea(v)
    \/ ClickGenerate
    \/ \E k \in 1..MaxInFlight : \E reply \in UNION { Replies(v) : v \in UiIdeas } :
           FetchResolves(k, reply)
    \/ \E k \in 1..MaxInFlight : FetchRejects(k)
    \/ \E k \in 1..MaxInFlight : ClientAbortFires(k)
    \/ \E k \in 1..MaxInFlight : JsonSettles(k)
    \/ clearForm
    \/ startEditing
    \/ cancelEditing
    \/ saveEditing
    \/ \E field \in EditFields, value \in EditValues : updateProposalField(field, JStr(value))
    \/ \E index \in EditIndexes, value \in EditValues : updateFeature(index, value)
    \/ \E index \in EditIndexes, value \in EditValues : updateConsideration(index, value)
    \/ UiTick

UiSpec == UiInit /\ [][UiNext]_vars

----------------------------------------------------------------------------
(* Properties of the component *)

(* A step in which a call of the component's generateProposal ends *)
Completes == Len(inflight') < Len(inflight)

(* C21: every generate action of the component that passed its input       *)
(* checks and then ends, by a success response, a non-success status, a    *)
(* body that is no JSON, a network failure or the 15 s abort, leaves a     *)
(* proposal that is not null and has all five fields non-empty, and        *)
(* leaves loading false.                                                   *)
C21_UsableAfterCompletion ==
    [][Completes
           => /\ ~uiProposal'.isNull
              /\ ProposalInvariant(uiProposal'.v)
              /\ ~loading']_vars

C21_Witness ==
    /\ inflight = << >>
    /\ ~loading
    /\ now = 15000
    /\ usingFallback
    /\ uiProposal = Some(getFallbackProposal(IdeaString(0, 1, 0)))
    /\ ProposalInvariant(uiProposal.v)

(* C25, as stated: the proposal held by the component has all five fields  *)
(* non-empty, with non-empty features and considerations, after any        *)
(* sequence of startEditing, updateProposalField, updateFeature,           *)
(* updateConsideration, saveEditing and cancelEditing.                     *)
C25_AsStated ==
    ~uiProposal.isNull => ProposalInvariant(uiProposal.v)

(* C28: at most one request of the component to POST /generate is in       *)
(* flight; a generate action starts a request only while loading is false; *)
(* loading is true exactly while a request is in flight, so it is false    *)
(* again once the request has ended, however it ended.                     *)
C28_OneInFlight ==
    /\ [](/\ Len(inflight) <= 1
          /\ loading <=> (inflight # << >>))
    /\ [][Len(inflight') > Len(inflight) => (~loading /\ loading')]_vars

C28_Witness ==
    /\ loading
    /\ Len(inflight) = 1
    /\ inflight[1].pc = "reading"
    /\ ~editedProposal.isNull
    /\ uiProposal.isNull

(* C29, as stated: once the form is cleared (idea empty, proposal and      *)
(* editedProposal null, usingFallback false) it stays so until the user    *)
(* types a new idea; the end of a request that was in flight does not      *)
(* repopulate it.                                                          *)
C29_AsStated ==
    [][(/\ uiIdea = JStr(<< >>)
        /\ uiProposal.isNull
        /\ editedProposal.isNull
        /\ ~usingFallback
        /\ uiIdea' = uiIdea)
           => (uiProposal'.isNull /\ editedProposal'.isNull /\ ~usingFallback')]_vars

(* The request ends with the proposal of an AI answer *)
FromAi(req) ==
    /\ req.pc = "reading"
    /\ req.reply.json
    /\ Ok(req.reply.body)
    /\ req.reply.body.success
    /\ req.reply.body.source = "ai"

(* C30, as stated: when a generate action ends, usingFallback is true if   *)
(* the proposal shown is fallback content (of the server, with source      *)
(* fallback, or of the component) and false if it came from the AI path.   *)
C30_AsStated ==
    [][(Completes /\ Len(inflight) = 1)
           => (usingFallback' <=> ~FromAi(inflight[1]))]_vars

============================================================================
